---- MODULE Spec2Model ----
(***************************************************************************)
(* Session / credential lifecycle and command dispatch of the e-mail       *)
(* assistant backend (backend/app/models.py, auth.py, email.py,            *)
(* chatbot.py).                                                            *)
(*                                                                         *)
(* Time is counted in half hours.  Tokens are opaque positive integers     *)
(* handed out by the identity provider; the provider's own record of each  *)
(* token's expiry is token_expiry.  The session file holds, per session    *)
(* id, the record written by UserSession.to_dict.                          *)
(*                                                                         *)
(* Every request handler runs to completion on the event loop (all I/O in  *)
(* the handlers is blocking), so one request is one action; the wall clock *)
(* may advance while a handler waits for the text-generation service.      *)
(***************************************************************************)
EXTENDS Integers, Sequences, FiniteSets, TLC

(* ---------------------------------------------------------------------- *)
(* Bounds of the model                                                     *)
(* ---------------------------------------------------------------------- *)
MaxTime == 2
MaxSessions == 1
MaxTokens == 2
MaxTTL == 2
MaxMessages == 3
MaxIds == 2
MaxFlows == 1
MaxKeys == 2
MaxCalls == 1
MaxWorkers == 2

(* the default of max_results (email.py:79, chatbot.py:131 and 234) *)
DefaultMaxResults == 5

(* timedelta(hours=1): the default session lifetime, in half hours *)
OneHour == 2

SessionIds == 1..MaxSessions
MessageIds == 1..MaxMessages
StoreKeys == 1..MaxKeys
FlowStates == 1..MaxFlows
Workers == 1..MaxWorkers
Emails == {"user@example.com"}
NoToken == 0

VARIABLES
    sessions_file,   \* contents of sessions.json
    now,             \* datetime.utcnow()
    token_expiry,    \* identity provider: token -> its expiry
    next_sid,        \* next value of secrets.token_urlsafe(32)
    refreshed,       \* sessions whose stored token was written by a refresh
    mailbox,         \* the user's messages, most recent first
    last,            \* the last completed call and what it did
    active_flows,    \* auth.active_flows: the states of the flows started
    procs            \* the store operations in progress in each worker

vars == <<sessions_file, now, token_expiry, next_sid, refreshed, mailbox, last,
          active_flows, procs>>

(* ---------------------------------------------------------------------- *)
(* models.py : the session store                                           *)
(* ---------------------------------------------------------------------- *)
EmptyDict == [s \in {} |-> 0]

(* a file holding the JSON object d *)
JsonFile(d) == [valid |-> TRUE, data |-> d]

(* a file opened with 'w' whose dump did not complete: not valid JSON *)
TruncatedFile == [valid |-> FALSE, data |-> EmptyDict]

(* created_at=None: the constructor fills in utcnow() *)
Unset == -1

(* a UserSession object with the fields as given *)
UserSession(sid, email, at, rt, exp, created) ==
    [session_id |-> sid, user_email |-> email, access_token |-> at,
     refresh_token |-> rt, expires_at |-> exp, created_at |-> created]

(* UserSession.__init__ at time t: created_at or datetime.utcnow() *)
NewUserSession(sid, email, at, rt, exp, created, t) ==
    UserSession(sid, email, at, rt, exp, IF created = Unset THEN t ELSE created)

(* datetime.isoformat() and datetime.fromisoformat(): a timestamp is     *)
(* stored as a string and parsed back                                    *)
isoformat(t) == [iso |-> t]
fromisoformat(string) == string.iso

(* the refresh token is not written *)
to_dict_DropsRefreshToken(session) ==
    [session_id |-> session.session_id, user_email |-> session.user_email,
     access_token |-> session.access_token, refresh_token |-> NoToken,
     expires_at |-> isoformat(session.expires_at),
     created_at |-> isoformat(session.created_at)]

(* UserSession.to_dict: the JSON object written for a session *)
to_dict(session) ==
    [session_id |-> session.session_id, user_email |-> session.user_email,
     access_token |-> session.access_token, refresh_token |-> session.refresh_token,
     expires_at |-> isoformat(session.expires_at),
     created_at |-> isoformat(session.created_at)]

(* UserSession.from_dict: the object read back from a stored JSON object *)
(* (every object in the file was written by to_dict, so created_at is    *)
(* present)                                                              *)
from_dict(data) ==
    UserSession(data.session_id, data.user_email, data.access_token,
                data.refresh_token, fromisoformat(data.expires_at),
                fromisoformat(data.created_at))

(* load_sessions: {} when the file is missing or does not parse *)
load_sessions(f) == IF f.valid THEN f.data ELSE EmptyDict

SaveOutcomes == {"ok", "open_fail", "write_fail"}

(* how a store operation ends: the file afterwards and the exception     *)
(* raised, if any                                                        *)
Result(file, error) == [file |-> file, raised |-> error # "none", error |-> error]

(* save_sessions: open(..., 'w') truncates, json.dump writes; an IOError  *)
(* is re-raised.                                                          *)
save_sessions(f, d, sv) ==
    CASE sv = "ok"         -> Result(JsonFile(d), "none")
      [] sv = "open_fail"  -> Result(f, "IOError")
      [] sv = "write_fail" -> Result(TruncatedFile, "IOError")

Put(d, sid, rec) == [k \in DOMAIN d \cup {sid} |-> IF k = sid THEN rec ELSE d[k]]

(* every record goes with the deleted one *)
Drop_All(d, sid) == EmptyDict

(* del sessions[session_id] *)
Drop(d, sid) == [k \in DOMAIN d \ {sid} |-> d[k]]

(* get_session: the stored record, or None (HasSession false) *)
HasSession(f, sid) == sid \in DOMAIN load_sessions(f)
get_session(f, sid) == from_dict(load_sessions(f)[sid])

create_session(f, rec, sv) ==
    save_sessions(f, Put(load_sessions(f), rec.session_id, to_dict(rec)), sv)

(* an absent session is created *)
update_session_Upsert(f, rec, sv) ==
    save_sessions(f, Put(load_sessions(f), rec.session_id, to_dict(rec)), sv)

update_session(f, rec, sv) ==
    IF rec.session_id \notin DOMAIN load_sessions(f)
    THEN Result(f, "ValueError")
    ELSE save_sessions(f, Put(load_sessions(f), rec.session_id, to_dict(rec)), sv)

delete_session(f, sid, sv) ==
    IF sid \in DOMAIN load_sessions(f)
    THEN save_sessions(f, Drop(load_sessions(f), sid), sv)
    ELSE Result(f, "none")

(* ---------------------------------------------------------------------- *)
(* auth.py : get_credentials                                               *)
(* ---------------------------------------------------------------------- *)
None == [none |-> TRUE, token |-> NoToken, refresh_token |-> NoToken]
Credentials(at, rt) == [none |-> FALSE, token |-> at, refresh_token |-> rt]

(* credentials.expired: the credential's own expiry marker, i.e. the      *)
(* expiry the provider attached to the token (utcnow() >= expiry)         *)
CredentialsExpired(ledger, at, t) == t >= ledger[at]

(* the fetch step without the expiry test *)
SessionRejected_NoExpiryTest(f, sid, t) == ~HasSession(f, sid)

(* the fetch step letting an expired session through when it could refresh *)
SessionRejected_UnlessRefreshable(f, sid, t) ==
    \/ ~HasSession(f, sid)
    \/ /\ get_session(f, sid).expires_at < t
       /\ get_session(f, sid).refresh_token = NoToken

(* line 244: "not session or session.expires_at < datetime.utcnow()" *)
SessionRejected(f, sid, t) ==
    ~HasSession(f, sid) \/ get_session(f, sid).expires_at < t

(* what the identity provider and the file system do during one call *)
RefreshAnswers == {"ok", "fail"}
RotatedAs == {"none", "same", "new"}
Envs == [rf : RefreshAnswers, ttl : 1..MaxTTL, rot : RotatedAs, sv : SaveOutcomes]

NewToken(ledger) == Cardinality(DOMAIN ledger) + 1

(* only a call that reaches credentials.refresh depends on the token     *)
(* lifetime, the rotation and the outcome of the write-back              *)
EnvsFor(f, ledger, sid, t) ==
    IF HasSession(f, sid) /\ get_session(f, sid).refresh_token # NoToken
          /\ CredentialsExpired(ledger, get_session(f, sid).access_token, t)
    THEN Envs
    ELSE [rf : RefreshAnswers, ttl : {1}, rot : {"none"}, sv : {"ok"}]

(* credentials.refresh succeeds only with a refresh token the provider   *)
(* accepts; otherwise it raises RefreshError                             *)
RefreshSucceeds(session, env) ==
    session.refresh_token # NoToken /\ env.rf = "ok"

(* credentials.refresh_token after a successful refresh *)
RefreshedRefreshToken(session, ledger, env) ==
    CASE env.rot = "none" -> NoToken
      [] env.rot = "same" -> session.refresh_token
      [] env.rot = "new"  -> NewToken(ledger) + MaxTokens

(* the write-back taking credentials.refresh_token whatever it holds *)
RefreshedSession_Overwrite(session, token, rt) ==
    [session EXCEPT !.access_token = token, !.refresh_token = rt]

(* lines 260-262: the fields of the session rewritten after a refresh *)
RefreshedSession(session, token, rt) ==
    [session EXCEPT !.access_token = token,
                    !.refresh_token = IF rt # NoToken THEN rt ELSE @]

(* get_credentials(session_id) at time t.  Result: the credential (or    *)
(* None), the file and the provider's ledger afterwards, the number of   *)
(* refresh calls made, and whether a refresh was written back.           *)
get_credentials(f, ledger, sid, t, env) ==
    IF SessionRejected(f, sid, t)
    THEN [cred |-> None, file |-> f, ledger |-> ledger,
          refresh_calls |-> 0, wrote |-> FALSE]
    ELSE
      LET session == get_session(f, sid) IN
      IF ~CredentialsExpired(ledger, session.access_token, t)
      THEN [cred |-> Credentials(session.access_token, session.refresh_token),
            file |-> f, ledger |-> ledger, refresh_calls |-> 0, wrote |-> FALSE]
      ELSE IF ~RefreshSucceeds(session, env)
      THEN [cred |-> None, file |-> f, ledger |-> ledger,
            refresh_calls |-> 1, wrote |-> FALSE]
      ELSE
        LET token   == NewToken(ledger)
            ledger2 == [k \in DOMAIN ledger \cup {token} |->
                          IF k = token THEN t + env.ttl ELSE ledger[k]]
            rt      == RefreshedRefreshToken(session, ledger, env)
            upd     == update_session(f, RefreshedSession(session, token, rt), env.sv)
        IN IF upd.raised
           THEN [cred |-> None, file |-> upd.file, ledger |-> ledger2,
                 refresh_calls |-> 1, wrote |-> FALSE]
           ELSE [cred |-> Credentials(token, rt), file |-> upd.file,
                 ledger |-> ledger2, refresh_calls |-> 1, wrote |-> TRUE]

(* a call needs a fresh token only on the refresh path *)
TokensLeft(ledger) == Cardinality(DOMAIN ledger) < MaxTokens

(* ---------------------------------------------------------------------- *)
(* The record of the last completed call                                   *)
(* ---------------------------------------------------------------------- *)
(* what a call reports beyond its status: nothing, until an operation    *)
(* fills it in                                                           *)
NoDetail == [kind |-> "none"]

NoCall ==
    [op |-> "none", sid |-> 0, at |-> 0, pre |-> JsonFile(EmptyDict),
     accepts |-> FALSE,
     cred |-> None, refresh_calls |-> 0, wrote |-> FALSE,
     raised |-> FALSE, status |-> 0,
     denied |-> 0, mailbox_calls |-> 0, textgen_calls |-> 0,
     action |-> "", error |-> FALSE, detail |-> NoDetail]

(* ---------------------------------------------------------------------- *)
(* Initial state and actions                                               *)
(* ---------------------------------------------------------------------- *)
(* a worker that is not inside a store operation *)
NoOperation ==
    [pc |-> "idle", op |-> "none", sid |-> 0, given |-> None,
     sessions |-> EmptyDict, pre |-> JsonFile(EmptyDict), raised |-> FALSE,
     cred |-> None, token |-> NoToken, attempted |-> FALSE, wrote |-> FALSE,
     calls |-> 0]

Init ==
    /\ sessions_file = JsonFile(EmptyDict)
    /\ now = 0
    /\ token_expiry = EmptyDict
    /\ next_sid = 1
    /\ refreshed = {}
    /\ mailbox = [i \in 1..MaxMessages |-> MaxMessages + 1 - i]
    /\ last = NoCall
    /\ active_flows = {}
    /\ procs = [w \in Workers |-> NoOperation]

(* no call is being answered: the server is ready for the next request *)
Idle == last.op = "none"

(* the answer of the last call has been delivered *)
Deliver ==
    /\ ~Idle
    /\ last' = NoCall
    /\ UNCHANGED <<sessions_file, now, token_expiry, next_sid, refreshed, mailbox, active_flows, procs>>

(* the wall clock advances between two requests *)
Tick ==
    /\ Idle
    /\ now < MaxTime
    /\ now' = now + 1
    /\ UNCHANGED <<sessions_file, token_expiry, next_sid, refreshed, mailbox, last, active_flows, procs>>

(* GET /api/auth/google: a flow is started and kept under its state *)
google_auth ==
    /\ Idle
    /\ \E state \in FlowStates \ active_flows :
         /\ active_flows' = active_flows \cup {state}
         /\ last' = [NoCall EXCEPT !.op = "google_auth", !.at = now,
                       !.pre = sessions_file, !.status = 200]
    /\ UNCHANGED <<sessions_file, now, token_expiry, next_sid, refreshed, mailbox, procs>>

(* what a callback reports of its run: the state it was given, whether   *)
(* that state was among active_flows, whether flow.fetch_token was       *)
(* called and whether a session was written                             *)
CallbackDetail(state, known, exchanged, created) ==
    [kind |-> "callback", state |-> state, known |-> known,
     exchanged |-> exchanged, created |-> created]

(* what the identity provider answers to the token exchange *)
Grants == {"ok", "invalid_grant"}

(* GET /api/auth/callback/google.  A stored flow is taken out of          *)
(* active_flows, an unknown state gets a new flow (lines 74-82); the     *)
(* token exchange yields an access token, possibly a refresh token and   *)
(* possibly an expiry, and a session is created under a fresh random id; *)
(* a refused exchange redirects to the login page (lines 148-174).       *)
google_callback ==
    \E state \in FlowStates, grant \in Grants :
    \E email \in Emails, ttl \in IF grant = "ok" THEN 1..MaxTTL ELSE {1},
       has_rt \in IF grant = "ok" THEN BOOLEAN ELSE {FALSE},
       has_expiry \in IF grant = "ok" THEN BOOLEAN ELSE {FALSE},
       sv \in IF grant = "ok" THEN SaveOutcomes ELSE {"ok"} :
      /\ Idle
      /\ active_flows' = active_flows \ {state}
      /\ IF grant # "ok"
         THEN /\ last' = [NoCall EXCEPT !.op = "google_callback", !.at = now,
                            !.pre = sessions_file, !.status = 302,
                            !.detail = CallbackDetail(state, state \in active_flows,
                                                      TRUE, FALSE)]
              /\ UNCHANGED <<sessions_file, token_expiry, refreshed, next_sid>>
         ELSE /\ next_sid <= MaxSessions
              /\ TokensLeft(token_expiry)
              /\ LET token  == NewToken(token_expiry)
                     expiry == IF has_expiry THEN now + ttl ELSE now + OneHour
                     rt     == IF has_rt THEN token + MaxTokens ELSE NoToken
                     rec    == UserSession(next_sid, email, token, rt, expiry, now)
                     res    == create_session(sessions_file, rec, sv)
                 IN /\ token_expiry' = [k \in DOMAIN token_expiry \cup {token} |->
                                          IF k = token THEN expiry ELSE token_expiry[k]]
                    /\ sessions_file' = res.file
                    /\ refreshed' = refreshed \cap DOMAIN load_sessions(res.file)
                    /\ last' = [NoCall EXCEPT !.op = "google_callback",
                                  !.sid = next_sid, !.at = now, !.pre = sessions_file,
                                  !.raised = res.raised, !.status = 302,
                                  !.detail = CallbackDetail(state, state \in active_flows,
                                                            TRUE, ~res.raised)]
              /\ next_sid' = next_sid + 1
      /\ UNCHANGED <<now, mailbox, procs>>

(* the sessions whose stored token comes from a refresh, after a call r *)
Refreshed(r, sid) ==
    (IF r.wrote THEN refreshed \cup {sid} ELSE refreshed)
        \cap DOMAIN load_sessions(r.file)

(* a call that would take the refresh path needs a token to hand out *)
CanServe(sid, env) ==
    LET r == get_credentials(sessions_file, token_expiry, sid, now, env) IN
    r.refresh_calls > 0 /\ RefreshSucceeds(get_session(sessions_file, sid), env)
        => TokensLeft(token_expiry)

(* the resolution of a session in the current state *)
Resolve(sid, env) == get_credentials(sessions_file, token_expiry, sid, now, env)

(* a direct call of get_credentials(session_id) *)
call_get_credentials ==
    /\ Idle
    /\ \E sid \in SessionIds :
       \E env \in EnvsFor(sessions_file, token_expiry, sid, now) :
       \E r \in {Resolve(sid, env)} :
         /\ CanServe(sid, env)
         /\ sessions_file' = r.file
         /\ token_expiry' = r.ledger
         /\ refreshed' = Refreshed(r, sid)
         /\ last' = [NoCall EXCEPT !.op = "get_credentials", !.sid = sid,
                       !.at = now, !.pre = sessions_file, !.accepts = (env.rf = "ok"),
                       !.cred = r.cred, !.refresh_calls = r.refresh_calls,
                       !.wrote = r.wrote]
         /\ UNCHANGED <<now, next_sid, mailbox, active_flows, procs>>

(* GET /api/auth/user/{session_id}: 404 when absent, 401 when expired;   *)
(* the same refresh and write-back as get_credentials, then the profile  *)
(* call; any exception on the way is answered 401.                       *)
get_user_info ==
    /\ Idle
    /\ \E sid \in SessionIds, info_ok \in BOOLEAN :
       \E env \in EnvsFor(sessions_file, token_expiry, sid, now) :
       \E r \in {Resolve(sid, env)} :
         /\ CanServe(sid, env)
         /\ sessions_file' = r.file
         /\ token_expiry' = r.ledger
         /\ refreshed' = Refreshed(r, sid)
         /\ last' = [NoCall EXCEPT !.op = "get_user_info", !.sid = sid,
                       !.at = now, !.pre = sessions_file, !.accepts = (env.rf = "ok"),
                       !.cred = r.cred, !.refresh_calls = r.refresh_calls,
                       !.wrote = r.wrote,
                       !.status = IF ~HasSession(sessions_file, sid) THEN 404
                                  ELSE IF r.cred.none \/ ~info_ok THEN 401
                                  ELSE 200]
         /\ UNCHANGED <<now, next_sid, mailbox, active_flows, procs>>

(* the body returned for a live session (lines 193-197) *)
SessionInfo(session) ==
    [kind |-> "session_info", session_id |-> session.session_id,
     user_email |-> session.user_email,
     expires_at |-> isoformat(session.expires_at)]

(* the expired record stays in the store *)
RemoveExpired_Keep(f, sid, sv) == Result(f, "none")

(* line 188: the expired record is deleted before 401 is raised *)
RemoveExpired(f, sid, sv) == delete_session(f, sid, sv)

(* GET /api/auth/session/{session_id} *)
get_session_info ==
    \E sid \in SessionIds :
    \E sv \in IF HasSession(sessions_file, sid) THEN SaveOutcomes ELSE {"ok"} :
      /\ Idle
      /\ IF ~HasSession(sessions_file, sid)
         THEN /\ sessions_file' = sessions_file
              /\ last' = [NoCall EXCEPT !.op = "get_session_info", !.sid = sid,
                            !.at = now, !.pre = sessions_file, !.status = 404]
         ELSE IF get_session(sessions_file, sid).expires_at < now
         THEN LET d == RemoveExpired(sessions_file, sid, sv) IN
              /\ sessions_file' = d.file
              /\ last' = [NoCall EXCEPT !.op = "get_session_info", !.sid = sid,
                            !.at = now, !.pre = sessions_file,
                            !.raised = d.raised,
                            !.status = IF d.raised THEN 500 ELSE 401]
         ELSE /\ sessions_file' = sessions_file
              /\ last' = [NoCall EXCEPT !.op = "get_session_info", !.sid = sid,
                            !.at = now, !.pre = sessions_file, !.status = 200,
                            !.detail = SessionInfo(get_session(sessions_file, sid))]
      /\ refreshed' = refreshed \cap DOMAIN load_sessions(sessions_file')
      /\ UNCHANGED <<now, token_expiry, next_sid, mailbox, active_flows, procs>>

(* ---------------------------------------------------------------------- *)
(* email.py : the mailbox endpoints                                        *)
(* ---------------------------------------------------------------------- *)
Min(a, b) == IF a < b THEN a ELSE b
Take(seq, n) == SubSeq(seq, 1, Min(n, Len(seq)))
InSeq(seq, x) == \E i \in 1..Len(seq) : seq[i] = x
Without(seq, x) == SelectSeq(seq, LAMBDA m : m # x)

(* what the mailbox provider does during one request:                    *)
(*   list : outcome of messages().list().execute()                       *)
(*   bad  : the messages whose fetch or decoding raises                  *)
(*   hits : the messages a search query matches                          *)
(*   call : outcome of messages().send / .delete                         *)
ListOutcomes == {"ok", "http_error", "error"}
CallOutcomes == {"ok", "http_error", "forbidden", "error"}
NoMailEnv == [list |-> "ok", bad |-> {}, hits |-> MessageIds, call |-> "ok"]

BadSets == {{}, {2}, MessageIds}
IdLists == UNION {[1..n -> MessageIds] : n \in 0..MaxIds}
Fetchable(mbox, me, id) == InSeq(mbox, id) /\ id \notin me.bad

(* get_gmail_service answering 401 to the client *)
Unauthorized == 401

(* the status with which each endpoint answers the HTTPException(401)    *)
(* raised by get_gmail_service: list_emails re-raises it (lines 142-143) *)
(* the others catch it with "except Exception" and answer 500            *)
DeniedStatus(op) == IF op = "list_emails" THEN Unauthorized ELSE 500

Answer(status, calls, gens, mbox) ==
    [status |-> status, mailbox_calls |-> calls, textgen_calls |-> gens,
     mailbox |-> mbox, detail |-> NoDetail]

(* what GET /api/email/list reports of its run: what the provider did,   *)
(* the listing it obtained and the "emails" it returned                  *)
ListDetail(me, listing, emails) ==
    [kind |-> "list", me |-> me, listing |-> listing, items |-> emails]

(* GET /api/email/list *)
list_emails(cred, mbox, max_results, me) ==
    IF cred.none THEN Answer(DeniedStatus("list_emails"), 0, 0, mbox)
    ELSE IF me.list # "ok" THEN Answer(500, 1, 0, mbox)
    ELSE LET messages == Take(mbox, max_results)
             emails   == SelectSeq(messages, LAMBDA m : m \notin me.bad)
         IN [Answer(200, 1 + Len(messages), Len(emails), mbox)
               EXCEPT !.detail = ListDetail(me, messages, emails)]

(* POST /api/email/reply/generate *)
generate_replies(cred, mbox, email_ids, me) ==
    IF cred.none THEN Answer(DeniedStatus("generate_replies"), 0, 0, mbox)
    ELSE LET done == SelectSeq(email_ids, LAMBDA m : Fetchable(mbox, me, m))
         IN Answer(200, Len(email_ids), Len(done), mbox)

(* POST /api/email/reply/send *)
send_reply(cred, mbox, email_id, me) ==
    IF cred.none THEN Answer(DeniedStatus("send_reply"), 0, 0, mbox)
    ELSE IF ~Fetchable(mbox, me, email_id) THEN Answer(500, 1, 0, mbox)
    ELSE IF me.call # "ok" THEN Answer(500, 2, 0, mbox)
    ELSE Answer(200, 2, 0, mbox)

(* DELETE /api/email/delete/{email_id} *)
delete_email(cred, mbox, email_id, me) ==
    IF cred.none THEN Answer(DeniedStatus("delete_email"), 0, 0, mbox)
    ELSE IF ~InSeq(mbox, email_id) THEN Answer(500, 1, 0, mbox)
    ELSE CASE me.call = "ok"        -> Answer(200, 1, 0, Without(mbox, email_id))
           [] me.call = "forbidden" -> Answer(403, 1, 0, mbox)
           [] OTHER                 -> Answer(500, 1, 0, mbox)

(* POST /api/email/search *)
search_emails(cred, mbox, max_results, me) ==
    IF cred.none THEN Answer(DeniedStatus("search_emails"), 0, 0, mbox)
    ELSE IF me.list # "ok" THEN Answer(500, 1, 0, mbox)
    ELSE LET found    == SelectSeq(mbox, LAMBDA m : m \in me.hits)
             messages == Take(Take(found, max_results), max_results)
         IN Answer(200, 1 + Len(messages), 0, mbox)

(* one request to a mailbox endpoint: the session is resolved by          *)
(* get_gmail_service, then the endpoint acts on the mailbox               *)
Serve(op, sid, env, r, a) ==
    /\ CanServe(sid, env)
    /\ sessions_file' = r.file
    /\ token_expiry' = r.ledger
    /\ refreshed' = Refreshed(r, sid)
    /\ mailbox' = a.mailbox
    /\ last' = [NoCall EXCEPT !.op = op, !.sid = sid, !.at = now,
                  !.pre = sessions_file, !.accepts = (env.rf = "ok"),
                  !.cred = r.cred, !.refresh_calls = r.refresh_calls,
                  !.wrote = r.wrote, !.status = a.status,
                  !.denied = IF r.cred.none THEN 1 ELSE 0,
                  !.mailbox_calls = a.mailbox_calls,
                  !.textgen_calls = a.textgen_calls, !.detail = a.detail]
    /\ UNCHANGED <<now, next_sid, active_flows, procs>>

Counts == 1..MaxMessages \cup {DefaultMaxResults}

ListEmails ==
    /\ Idle
    /\ \E sid \in SessionIds, max_results \in Counts :
       \E env \in EnvsFor(sessions_file, token_expiry, sid, now) :
       \E ls \in ListOutcomes, bad \in BadSets :
       \E r \in {Resolve(sid, env)} :
       \E me \in {[NoMailEnv EXCEPT !.list = ls, !.bad = bad]} :
       \E a \in {list_emails(r.cred, mailbox, max_results, me)} :
         /\ r.cred.none => ls = "ok" /\ bad = {}
         /\ Serve("list_emails", sid, env, r, a)

GenerateReplies ==
    /\ Idle
    /\ \E sid \in SessionIds, email_ids \in IdLists :
       \E env \in EnvsFor(sessions_file, token_expiry, sid, now) :
       \E bad \in BadSets :
       \E r \in {Resolve(sid, env)} :
       \E me \in {[NoMailEnv EXCEPT !.bad = bad]} :
       \E a \in {generate_replies(r.cred, mailbox, email_ids, me)} :
         /\ r.cred.none => bad = {}
         /\ Serve("generate_replies", sid, env, r, a)

SendReply ==
    /\ Idle
    /\ \E sid \in SessionIds, email_id \in MessageIds :
       \E env \in EnvsFor(sessions_file, token_expiry, sid, now) :
       \E bad \in BadSets, call \in CallOutcomes :
       \E r \in {Resolve(sid, env)} :
       \E me \in {[NoMailEnv EXCEPT !.bad = bad, !.call = call]} :
       \E a \in {send_reply(r.cred, mailbox, email_id, me)} :
         /\ r.cred.none => bad = {} /\ call = "ok"
         /\ Serve("send_reply", sid, env, r, a)

DeleteEmail ==
    /\ Idle
    /\ \E sid \in SessionIds, email_id \in MessageIds :
       \E env \in EnvsFor(sessions_file, token_expiry, sid, now) :
       \E call \in CallOutcomes :
       \E r \in {Resolve(sid, env)} :
       \E me \in {[NoMailEnv EXCEPT !.call = call]} :
       \E a \in {delete_email(r.cred, mailbox, email_id, me)} :
         /\ r.cred.none => call = "ok"
         /\ Serve("delete_email", sid, env, r, a)

SearchEmails ==
    /\ Idle
    /\ \E sid \in SessionIds, max_results \in Counts :
       \E env \in EnvsFor(sessions_file, token_expiry, sid, now) :
       \E ls \in ListOutcomes, hits \in {{}, {1}, MessageIds} :
       \E r \in {Resolve(sid, env)} :
       \E me \in {[NoMailEnv EXCEPT !.list = ls, !.hits = hits]} :
       \E a \in {search_emails(r.cred, mailbox, max_results, me)} :
         /\ r.cred.none => ls = "ok" /\ hits = MessageIds
         /\ Serve("search_emails", sid, env, r, a)

MailboxEndpoints ==
    {"list_emails", "generate_replies", "send_reply", "delete_email", "search_emails"}

(* ---------------------------------------------------------------------- *)
(* chatbot.py : intent resolution                                          *)
(* ---------------------------------------------------------------------- *)
(* What the keyword tests of lines 62-98 see of the lower-cased message:  *)
(*   read_verb   any of read show list get fetch display see              *)
(*   reply_verb  any of reply respond answer generate                     *)
(*   delete_verb any of delete remove trash                               *)
(*   noun        "mail" when it contains email, mail or message,          *)
(*               "inbox" when it contains inbox only, else "none"         *)
(*   numbers     re.findall(r'\d+', ...) as integers                      *)
(*   greet       contains greeting, hello or hi                           *)
(*   help        contains help or capabilities                            *)
Text(rd, rp, dl, noun, numbers, greet, help) ==
    [read_verb |-> rd, reply_verb |-> rp, delete_verb |-> dl, noun |-> noun,
     numbers |-> numbers, greet |-> greet, help |-> help]

Plain == Text(FALSE, FALSE, FALSE, "none", <<>>, FALSE, FALSE)

ChatTexts ==
    { Text(TRUE, FALSE, FALSE, "mail", <<3>>, FALSE, FALSE),   \* "please show me my last 3 emails"
      Text(TRUE, FALSE, FALSE, "inbox", <<>>, FALSE, FALSE),   \* "list my inbox"
      Text(FALSE, TRUE, FALSE, "mail", <<>>, FALSE, FALSE),    \* "reply to my messages"
      Text(FALSE, FALSE, TRUE, "mail", <<2>>, FALSE, FALSE),   \* "delete email number 2"
      Text(FALSE, FALSE, FALSE, "none", <<>>, TRUE, FALSE),    \* "hello"
      Text(FALSE, FALSE, FALSE, "none", <<>>, FALSE, TRUE),    \* "help"
      Text(TRUE, FALSE, FALSE, "mail", <<2, 3>>, FALSE, FALSE), \* "show 2 of my last 3 emails"
      Text(FALSE, TRUE, FALSE, "mail", <<1>>, FALSE, FALSE),   \* "reply to email 1"
      Text(FALSE, TRUE, FALSE, "inbox", <<>>, FALSE, FALSE),   \* "reply to my inbox"
      Text(TRUE, FALSE, TRUE, "mail", <<2>>, FALSE, FALSE),    \* "get and delete message 2"
      Text(TRUE, FALSE, FALSE, "none", <<>>, TRUE, FALSE),     \* "hi, can you see me?"
      Text(FALSE, FALSE, FALSE, "none", <<>>, TRUE, TRUE),     \* "hello, I need help"
      Plain }                                                  \* "good morning"

(* the texts tried on a request whose tier-1 answer names a handler *)
KeywordTexts ==
    { Plain,
      Text(TRUE, FALSE, FALSE, "mail", <<3>>, FALSE, FALSE),
      Text(FALSE, FALSE, TRUE, "mail", <<2>>, FALSE, FALSE) }

(* the "parameters" value: a JSON object, or any other JSON value *)
Mapping(items) == [mapping |-> TRUE, items |-> items]
NotAMapping == [mapping |-> FALSE, items |-> EmptyDict]
Has(p, k) == k \in DOMAIN p.items
Get(p, k, default) == IF Has(p, k) THEN p.items[k] ELSE default
Set(p, k, v) ==
    Mapping([x \in DOMAIN p.items \cup {k} |-> IF x = k THEN v ELSE p.items[x]])

(* what parse_natural_language_command hands back: it raises, or returns *)
(* a JSON value that is not an object, or an object whose "action" and   *)
(* "parameters" may be missing                                           *)
Raises == [kind |-> "raises", action |-> "", has_parameters |-> FALSE,
           parameters |-> Mapping(EmptyDict)]
NotAnObject == [Raises EXCEPT !.kind = "not_an_object"]
Object(action, has_parameters, parameters) ==
    [kind |-> "object", action |-> action, has_parameters |-> has_parameters,
     parameters |-> parameters]
Missing == "<missing>"

(* lines 49-57: action and parameters after tier 1 *)
ParsedAction(t1) ==
    IF t1.kind # "object" \/ t1.action = Missing THEN "unknown" ELSE t1.action
ParsedParameters(t1) ==
    IF t1.kind # "object" \/ ~t1.has_parameters THEN Mapping(EmptyDict)
    ELSE t1.parameters

Resolution(action, parameters, raised) ==
    [action |-> action, parameters |-> parameters, raised |-> raised]

(* the last number of the text is taken *)
WithNumber_LastNumber(action, parameters, key, text) ==
    IF text.numbers = <<>> THEN Resolution(action, parameters, FALSE)
    ELSE IF ~parameters.mapping THEN Resolution(action, parameters, TRUE)
    ELSE Resolution(action, Set(parameters, key, text.numbers[Len(text.numbers)]), FALSE)

(* parameters[key] = int(numbers[0]): a TypeError unless parameters is a *)
(* mapping                                                               *)
WithNumber(action, parameters, key, text) ==
    IF text.numbers = <<>> THEN Resolution(action, parameters, FALSE)
    ELSE IF ~parameters.mapping THEN Resolution(action, parameters, TRUE)
    ELSE Resolution(action, Set(parameters, key, text.numbers[1]), FALSE)

(* the keyword rules are applied to every message *)
TierOneMissed_Always(action) == TRUE

(* line 60: the keyword rules apply only to an action left "unknown" *)
TierOneMissed(action) == action = "unknown"

(* lines 59-80: the keyword fallback *)
Fallback(text, action, parameters) ==
    IF ~TierOneMissed(action) THEN Resolution(action, parameters, FALSE)
    ELSE IF text.read_verb
    THEN IF text.noun # "none"
         THEN WithNumber("read", parameters, "max_results", text)
         ELSE Resolution(action, parameters, FALSE)
    ELSE IF text.reply_verb
    THEN IF text.noun = "mail"
         THEN Resolution("reply", parameters, FALSE)
         ELSE Resolution(action, parameters, FALSE)
    ELSE IF text.delete_verb
    THEN IF text.noun = "mail"
         THEN WithNumber("delete", parameters, "email_number", text)
         ELSE Resolution(action, parameters, FALSE)
    ELSE Resolution(action, parameters, FALSE)

(* ---------------------------------------------------------------------- *)
(* chatbot.py : the handlers                                               *)
(* ---------------------------------------------------------------------- *)
(* the mailbox calls of one request, by kind *)
Calls(lists, gets, deletes) == [list |-> lists, get |-> gets, delete |-> deletes]
NoCalls == Calls(0, 0, 0)
Total(calls) == calls.list + calls.get + calls.delete

(* a ChatResponse: its action, the key of its data payload ("none" when  *)
(* data is left unset), the calls made and the mailbox afterwards; and of *)
(* the handler's run: the last listing it obtained, the search it issued, *)
(* the messages it targeted and the entries it returned; for a delete,    *)
(* the calls made on the target in their order and where the Subject and  *)
(* From of the answer come from                                           *)
ChatResponse(action, error, calls, gens, mbox) ==
    [action |-> action, error |-> error, calls |-> calls,
     mailbox_calls |-> Total(calls), textgen_calls |-> gens, mailbox |-> mbox,
     data |-> IF error THEN "error" ELSE "none",
     listing |-> <<>>, query |-> "none", targets |-> <<>>, items |-> <<>>,
     order |-> <<>>, headers |-> "none"]

(* the "except Exception" of a handler *)
Sorry(action, calls, mbox) == ChatResponse(action, TRUE, calls, 0, mbox)

(* the batch ends at the first message that fails *)
ReadBatch_StopAtFailure(messages, me) ==
    SubSeq(messages, 1,
           Cardinality({i \in 1..Len(messages) :
                          \A j \in 1..i : messages[j] \notin me.bad}))

(* lines 148-194: each listed message is fetched and summarised in turn; *)
(* an exception on one message is logged and the loop continues          *)
ReadBatch(messages, me) == SelectSeq(messages, LAMBDA m : m \notin me.bad)

handle_read_emails(cred, mbox, parameters, me) ==
    IF cred.none \/ ~parameters.mapping THEN Sorry("read", NoCalls, mbox)
    ELSE IF me.list # "ok" THEN Sorry("read", Calls(1, 0, 0), mbox)
    ELSE LET messages == Take(mbox, Get(parameters, "max_results", DefaultMaxResults))
             emails   == ReadBatch(messages, me)
         IN [ChatResponse("read", FALSE, Calls(1, Len(messages), 0), Len(emails), mbox)
               EXCEPT !.data = "emails", !.listing = messages, !.items = emails]

(* an empty target set is reported as a failure *)
NoEmailsFound_AsError(calls, mbox) == Sorry("reply", calls, mbox)

(* lines 239-243: nothing to reply to *)
NoEmailsFound(calls, mbox) == ChatResponse("reply", FALSE, calls, 0, mbox)

handle_generate_replies(cred, mbox, parameters, me) ==
    IF cred.none \/ ~parameters.mapping THEN Sorry("reply", NoCalls, mbox)
    ELSE
      LET given        == Get(parameters, "email_ids", <<>>)
          email_number == Get(parameters, "email_number", 0)
          numbered     == email_number # 0
          listed       == Take(mbox, email_number)
          ids1         == IF numbered /\ Len(listed) >= email_number
                          THEN <<listed[email_number]>> ELSE given
          calls1       == IF numbered THEN 1 ELSE 0
          recent       == Take(mbox, DefaultMaxResults)
          email_ids    == IF ids1 = <<>> THEN recent ELSE ids1
          calls2       == IF ids1 = <<>> THEN calls1 + 1 ELSE calls1
          listing      == IF ids1 = <<>> THEN recent ELSE listed
          replies      == SelectSeq(email_ids, LAMBDA m : Fetchable(mbox, me, m))
      IN IF numbered /\ me.list # "ok" THEN Sorry("reply", Calls(1, 0, 0), mbox)
         ELSE IF ids1 = <<>> /\ me.list # "ok"
         THEN Sorry("reply", Calls(calls2, 0, 0), mbox)
         ELSE IF email_ids = <<>>
         THEN [NoEmailsFound(Calls(calls2, 0, 0), mbox) EXCEPT !.listing = listing]
         ELSE [ChatResponse("reply", FALSE, Calls(calls2, Len(email_ids), 0),
                            Len(replies), mbox)
                 EXCEPT !.data = "replies", !.listing = listing,
                        !.targets = email_ids, !.items = replies]

(* a failed header fetch ends the handler before the delete *)
DeleteTarget_AbortOnFetchFailure(mbox, target, calls, me) ==
    LET made == Calls(calls.list, calls.get + 1, calls.delete + 1) IN
    IF ~Fetchable(mbox, me, target)
    THEN [Sorry("delete", Calls(calls.list, calls.get + 1, calls.delete), mbox)
            EXCEPT !.targets = <<target>>, !.order = <<"get">>]
    ELSE IF me.call # "ok"
    THEN [Sorry("delete", made, mbox)
            EXCEPT !.targets = <<target>>, !.order = <<"get", "delete">>,
                   !.headers = "fetched"]
    ELSE [ChatResponse("delete", FALSE, made, 0, Without(mbox, target))
            EXCEPT !.data = "deleted_email_id", !.targets = <<target>>,
                   !.items = <<target>>, !.order = <<"get", "delete">>,
                   !.headers = "fetched"]

(* lines 369-396: the headers are fetched, a failure of the fetch being  *)
(* swallowed with Subject and From set to "Unknown" (369-382); then the  *)
(* message is deleted (385-388) and the success answer carries the       *)
(* target as data.deleted_email_id (390-396)                             *)
DeleteTarget(mbox, target, calls, me) ==
    LET made    == Calls(calls.list, calls.get + 1, calls.delete + 1)
        headers == IF Fetchable(mbox, me, target) THEN "fetched" ELSE "Unknown"
    IN IF ~InSeq(mbox, target) \/ me.call # "ok"
       THEN [Sorry("delete", made, mbox)
               EXCEPT !.targets = <<target>>, !.order = <<"get", "delete">>,
                      !.headers = headers]
       ELSE [ChatResponse("delete", FALSE, made, 0, Without(mbox, target))
               EXCEPT !.data = "deleted_email_id", !.targets = <<target>>,
                      !.items = <<target>>, !.order = <<"get", "delete">>,
                      !.headers = headers]

(* the mailbox is listed before the user is asked *)
Disambiguate_AfterListing(mbox) ==
    ChatResponse("delete", FALSE, Calls(1, 0, 0), 0, mbox)

(* lines 360-367: no criterion: the user is asked which email to delete *)
Disambiguate(mbox) == ChatResponse("delete", FALSE, NoCalls, 0, mbox)

(* the oldest message matching the query *)
Search_Oldest(mbox, me) ==
    LET found == SelectSeq(mbox, LAMBDA m : m \in me.hits) IN
    IF found = <<>> THEN <<>> ELSE <<found[Len(found)]>>

(* lines 330-359: the single most recent message matching the query *)
Search(mbox, me) == Take(SelectSeq(mbox, LAMBDA m : m \in me.hits), 1)

handle_delete_email(cred, mbox, parameters, me) ==
    IF cred.none \/ ~parameters.mapping THEN Sorry("delete", NoCalls, mbox)
    ELSE
      LET email_id     == Get(parameters, "email_id", 0)
          email_number == Get(parameters, "email_number", 0)
          sender       == Get(parameters, "sender", "")
          subject      == Get(parameters, "subject_keyword", "")
          listed       == Take(mbox, email_number)
          found        == Search(mbox, me)
          query        == IF sender # "" THEN "from" ELSE "subject"
          With(r, listing, q) == [r EXCEPT !.listing = listing, !.query = q]
      IN IF email_id # 0 THEN DeleteTarget(mbox, email_id, NoCalls, me)
         ELSE IF email_number # 0
         THEN IF me.list # "ok" THEN Sorry("delete", Calls(1, 0, 0), mbox)
              ELSE IF Len(listed) < email_number
              THEN With(ChatResponse("delete", FALSE, Calls(1, 0, 0), 0, mbox),
                        listed, "none")
              ELSE With(DeleteTarget(mbox, listed[email_number], Calls(1, 0, 0), me),
                        listed, "none")
         ELSE IF sender # "" \/ subject # ""
         THEN IF me.list # "ok"
              THEN With(Sorry("delete", Calls(1, 0, 0), mbox), <<>>, query)
              ELSE IF found = <<>>
              THEN With(ChatResponse("delete", FALSE, Calls(1, 0, 0), 0, mbox),
                        found, query)
              ELSE With(DeleteTarget(mbox, found[1], Calls(1, 0, 0), me),
                        found, query)
         ELSE Disambiguate(mbox)

(* lines 82-118: the dispatch on the resolved action *)
Handled == {"read", "reply", "delete"}

Dispatch(action, text, cred, mbox, parameters, me) ==
    CASE action = "read"   -> handle_read_emails(cred, mbox, parameters, me)
      [] action = "reply"  -> handle_generate_replies(cred, mbox, parameters, me)
      [] action = "delete" -> handle_delete_email(cred, mbox, parameters, me)
      [] OTHER ->
           IF text.greet THEN ChatResponse("greeting", FALSE, NoCalls, 0, mbox)
           ELSE IF text.help THEN ChatResponse("help", FALSE, NoCalls, 0, mbox)
           ELSE ChatResponse("unknown", FALSE, NoCalls, 0, mbox)

(* the intent parsed whatever the session check says *)
IntentCalls_BeforeCheck(cred) == 1

(* lines 44-50: the intent is parsed only once the session is verified: *)
(* the number of parse calls made for a request                         *)
IntentCalls(cred) == IF cred.none THEN 0 ELSE 1

(* what a chat request reports of its run: the text and the tier-1       *)
(* answer it was given, the action and parameters resolved from them,    *)
(* whether a handler ran, what the mailbox provider did, and the         *)
(* handler's response                                                    *)
ChatDetail(text, t1, res, ran, me, mbox, out) ==
    [kind |-> "chat", text |-> text, tier1 |-> t1, resolved |-> res.action,
     parameters |-> res.parameters, raised |-> res.raised, ran |-> ran,
     me |-> me, mailbox |-> mbox, response |-> out]

(* POST /api/chatbot/message.  The session is resolved at the start (r1) *)
(* and again by the handler's get_gmail_service (r2), dt later.          *)
process_chat_message(r1, r2, mbox, text, t1, me) ==
    LET res == Fallback(text, ParsedAction(t1), ParsedParameters(t1))
        out == Dispatch(res.action, text, r2.cred, mbox, res.parameters, me)
        none == ChatResponse("", FALSE, NoCalls, 0, mbox)
        base == [status |-> 200, action |-> "", error |-> FALSE, denied |-> 0,
                 mailbox_calls |-> 0, textgen_calls |-> IntentCalls(r1.cred),
                 mailbox |-> mbox, detail |-> NoDetail]
    IN IF r1.cred.none THEN [base EXCEPT !.status = Unauthorized, !.denied = 1]
       ELSE IF res.raised
       THEN [base EXCEPT !.status = 500,
                         !.detail = ChatDetail(text, t1, res, FALSE, me, mbox, none)]
       ELSE [base EXCEPT !.action = out.action, !.error = out.error,
                         !.mailbox_calls = out.mailbox_calls,
                         !.textgen_calls = @ + out.textgen_calls,
                         !.mailbox = out.mailbox,
                         !.denied = IF res.action \in Handled /\ r2.cred.none
                                    THEN 2 ELSE 0,
                         !.detail = ChatDetail(text, t1, res, res.action \in Handled,
                                               me, mbox, out)]

(* the inputs of the chat requests of the model *)
ChatParameters(action) ==
    {NotAMapping, Mapping(EmptyDict)} \cup
    CASE action = "read" ->
           { Mapping([k \in {"max_results"} |-> 1]) }
      [] action = "reply" ->
           { Mapping([k \in {"email_number"} |-> 1]),
             Mapping([k \in {"email_number"} |-> MaxMessages + 1]),
             Mapping([k \in {"email_ids"} |-> <<1>>]),
             Mapping([k \in {"email_ids", "email_number"} |->
                        IF k = "email_ids" THEN <<1>> ELSE 1]) }
      [] action = "delete" ->
           { Mapping([k \in {"email_id"} |-> 1]),
             Mapping([k \in {"email_number"} |-> 1]),
             Mapping([k \in {"email_number"} |-> MaxMessages + 1]),
             Mapping([k \in {"sender"} |-> "boss@example.com"]),
             Mapping([k \in {"subject_keyword"} |-> "meeting"]),
             Mapping([k \in {"email_id", "email_number"} |-> 1]),
             Mapping([k \in {"sender", "subject_keyword"} |->
                        IF k = "sender" THEN "boss@example.com" ELSE "meeting"]) }
      [] OTHER -> {}

Tier1Answers ==
    {Raises, NotAnObject, Object("unknown", FALSE, NotAMapping),
     Object(Missing, TRUE, NotAMapping), Object("send", TRUE, Mapping(EmptyDict))}
    \cup UNION {{Object(a, TRUE, p) : p \in ChatParameters(a)} :
                  a \in Handled \cup {"unknown"}}

(* only a request that falls through tier 1 looks at the text *)
TextsFor(t1) == IF ParsedAction(t1) \in Handled THEN KeywordTexts ELSE ChatTexts

(* only the handler that runs depends on the mailbox provider *)
MailEnvsFor(action) ==
    CASE action \in {"read", "reply"} ->
           [list : {"ok", "error"}, bad : BadSets, hits : {MessageIds}, call : {"ok"}]
      [] action = "delete" ->
           [list : {"ok", "error"}, bad : {{}, MessageIds}, hits : {{}, MessageIds},
            call : {"ok", "http_error"}]
      [] OTHER -> {NoMailEnv}

ProcessChatMessage ==
    /\ Idle
    /\ \E sid \in SessionIds :
       \E env1 \in EnvsFor(sessions_file, token_expiry, sid, now) :
       \E r1 \in {get_credentials(sessions_file, token_expiry, sid, now, env1)} :
       \E dt \in IF r1.cred.none THEN {0} ELSE {d \in 0..1 : now + d <= MaxTime} :
       \E t1 \in IF r1.cred.none THEN {Raises} ELSE Tier1Answers :
       \E text \in TextsFor(t1) :
       \E res \in {Fallback(text, ParsedAction(t1), ParsedParameters(t1))} :
       \E runs \in {~r1.cred.none /\ ~res.raised /\ res.action \in Handled} :
       \E env2 \in IF runs THEN EnvsFor(r1.file, r1.ledger, sid, now + dt)
                   ELSE {env1} :
       \E r2 \in {IF runs
                  THEN get_credentials(r1.file, r1.ledger, sid, now + dt, env2)
                  ELSE [r1 EXCEPT !.refresh_calls = 0, !.wrote = FALSE]} :
       \E me \in IF runs /\ ~r2.cred.none THEN MailEnvsFor(res.action)
                 ELSE {NoMailEnv} :
       \E a \in {process_chat_message(r1, r2, mailbox, text, t1, me)} :
         /\ Cardinality(DOMAIN r2.ledger) <= MaxTokens
         /\ now' = now + dt
         /\ sessions_file' = r2.file
         /\ token_expiry' = r2.ledger
         /\ refreshed' = (IF r1.wrote \/ r2.wrote
                          THEN refreshed \cup {sid} ELSE refreshed)
                             \cap DOMAIN load_sessions(r2.file)
         /\ mailbox' = a.mailbox
         /\ last' = [NoCall EXCEPT !.op = "process_chat_message", !.sid = sid,
                       !.at = now, !.pre = sessions_file,
                       !.accepts = (env1.rf = "ok"), !.cred = r1.cred,
                       !.refresh_calls = r1.refresh_calls + r2.refresh_calls,
                       !.wrote = r1.wrote \/ r2.wrote,
                       !.status = a.status, !.denied = a.denied,
                       !.mailbox_calls = a.mailbox_calls,
                       !.textgen_calls = a.textgen_calls,
                       !.action = a.action, !.error = a.error,
                       !.detail = a.detail]
         /\ UNCHANGED <<next_sid, active_flows, procs>>

(* ---------------------------------------------------------------------- *)
(* models.py called directly, one call at a time                           *)
(* ---------------------------------------------------------------------- *)
(* what a store call reports: the session it was given, the created_at   *)
(* passed to the constructor, the exception raised, and for get_session  *)
(* whether a session was returned and which                              *)
StoreDetail(given, created, error, found, returned) ==
    [kind |-> "store", given |-> given, created |-> created, error |-> error,
     found |-> found, returned |-> returned]

StoreCall(op, sid, given, created, res) ==
    /\ sessions_file' = res.file
    /\ refreshed' = refreshed \cap DOMAIN load_sessions(res.file)
    /\ last' = [NoCall EXCEPT !.op = op, !.sid = sid, !.at = now,
                  !.pre = sessions_file, !.raised = res.raised,
                  !.detail = StoreDetail(given, created, res.error, FALSE, given)]
    /\ UNCHANGED <<now, token_expiry, next_sid, mailbox, active_flows, procs>>

CreateSession ==
    /\ Idle
    /\ \E k \in StoreKeys, email \in Emails, at \in 1..MaxTokens,
          rt \in {NoToken, MaxTokens + 1}, created \in {Unset, 0}, sv \in SaveOutcomes :
       \E session \in {NewUserSession(k, email, at, rt, now + 1, created, now)} :
       \E res \in {create_session(sessions_file, session, sv)} :
         StoreCall("create_session", k, session, created, res)

UpdateSession ==
    /\ Idle
    /\ \E k \in StoreKeys, email \in Emails, at \in 1..MaxTokens,
          rt \in {NoToken, MaxTokens + 1}, created \in {Unset, 0}, sv \in SaveOutcomes :
       \E session \in {NewUserSession(k, email, at, rt, now + 1, created, now)} :
       \E res \in {update_session(sessions_file, session, sv)} :
         /\ ~HasSession(sessions_file, k) => sv = "ok"
         /\ StoreCall("update_session", k, session, created, res)

DeleteSession ==
    /\ Idle
    /\ \E k \in StoreKeys, sv \in SaveOutcomes :
       \E res \in {delete_session(sessions_file, k, sv)} :
         /\ ~HasSession(sessions_file, k) => sv = "ok"
         /\ StoreCall("delete_session", k, None, Unset, res)

GetSession ==
    /\ Idle
    /\ \E k \in StoreKeys :
         /\ last' = [NoCall EXCEPT !.op = "get_session", !.sid = k, !.at = now,
                       !.pre = sessions_file,
                       !.detail = StoreDetail(None, Unset, "none",
                                     HasSession(sessions_file, k),
                                     IF HasSession(sessions_file, k)
                                     THEN get_session(sessions_file, k) ELSE None)]
    /\ UNCHANGED <<sessions_file, now, token_expiry, next_sid, refreshed, mailbox,
                   active_flows, procs>>

NextStore ==
    \/ Deliver
    \/ Tick
    \/ CreateSession
    \/ UpdateSession
    \/ DeleteSession
    \/ GetSession

SpecStore == Init /\ [][NextStore]_vars

(* ---------------------------------------------------------------------- *)
(* The store and get_credentials statement by statement, for requests    *)
(* served side by side: each worker is one request in progress           *)
(* ---------------------------------------------------------------------- *)
StoreOps == {"create_session", "update_session", "delete_session"}

(* the operation of worker w returns: an exception inside get_credentials *)
(* is caught (lines 264-266) and the answer is None                      *)
Finish(p, error) ==
    [p EXCEPT !.pc = "done",
              !.raised = (error # "none"),
              !.wrote = (p.op = "get_credentials" /\ error = "none"),
              !.cred = IF p.op = "get_credentials" /\ error = "none"
                       THEN Credentials(p.token, p.given.refresh_token)
                       ELSE None]

(* a store function is called and runs up to its save_sessions: the file *)
(* is loaded and the change is made in the loaded dict                   *)
Enter(w) ==
    /\ Idle
    /\ procs[w].pc = "idle"
    /\ procs[w].calls < MaxCalls
    /\ \E op \in StoreOps, k \in StoreKeys, email \in Emails, at \in 1..MaxTokens :
       \E d \in {load_sessions(sessions_file)} :
       \E p \in {[procs[w] EXCEPT !.op = op, !.sid = k, !.pre = sessions_file,
                     !.given = NewUserSession(k, email, at, NoToken,
                                              now + 1, Unset, now)]} :
         /\ at = (IF op = "update_session" THEN MaxTokens ELSE 1)
         /\ procs' = [procs EXCEPT ![w] =
               CASE op = "update_session" /\ k \notin DOMAIN d
                      -> Finish(p, "ValueError")
                 [] op = "delete_session" /\ k \notin DOMAIN d
                      -> Finish(p, "none")
                 [] op = "delete_session" /\ k \in DOMAIN d
                      -> [p EXCEPT !.pc = "loaded", !.sessions = Drop(d, k)]
                 [] OTHER
                      -> [p EXCEPT !.pc = "loaded",
                                   !.sessions = Put(d, k, to_dict(p.given))]]
    /\ UNCHANGED <<sessions_file, now, token_expiry, next_sid, refreshed, mailbox,
                   last, active_flows>>

(* save_sessions line 66: open(SESSIONS_FILE, 'w') empties the file, or  *)
(* fails and leaves it as it is                                          *)
Open(w) ==
    /\ Idle
    /\ procs[w].pc = "loaded"
    /\ \E opened \in BOOLEAN :
         IF opened
         THEN /\ sessions_file' = TruncatedFile
              /\ procs' = [procs EXCEPT ![w].pc = "opened"]
         ELSE /\ sessions_file' = sessions_file
              /\ procs' = [procs EXCEPT ![w] = Finish(procs[w], "IOError")]
    /\ UNCHANGED <<now, token_expiry, next_sid, refreshed, mailbox, last, active_flows>>

(* what the file holds after json.dump wrote d from the start of a file  *)
(* opened earlier: d when the file was still empty; when another request *)
(* has dumped its dict since, d followed by what is left of the longer   *)
(* text, which is no JSON, or d alone when d is the longer one           *)
Dumped(f, d) ==
    IF f.valid /\ f.data # d THEN {JsonFile(d), TruncatedFile} ELSE {JsonFile(d)}

(* save_sessions line 67: json.dump writes the dict, or breaks off *)
Dump(w) ==
    /\ Idle
    /\ procs[w].pc = "opened"
    /\ \E sv \in SaveOutcomes \ {"open_fail"} :
         IF sv = "ok"
         THEN /\ sessions_file' \in Dumped(sessions_file, procs[w].sessions)
              /\ procs' = [procs EXCEPT ![w] = Finish(procs[w], "none")]
              /\ refreshed' = IF procs[w].op = "get_credentials"
                              THEN refreshed \cup {procs[w].sid}
                              ELSE refreshed \cap DOMAIN procs[w].sessions
         ELSE /\ sessions_file' = TruncatedFile
              /\ procs' = [procs EXCEPT ![w] = Finish(procs[w], "IOError")]
              /\ refreshed' = refreshed
    /\ UNCHANGED <<now, token_expiry, next_sid, mailbox, last, active_flows>>

(* the process serving the request stops inside the store function *)
Stop(w) ==
    /\ Idle
    /\ procs[w].pc \in {"loaded", "opened"}
    /\ procs' = [procs EXCEPT ![w].pc = "stopped"]
    /\ UNCHANGED <<sessions_file, now, token_expiry, next_sid, refreshed, mailbox,
                   last, active_flows>>

(* the request is answered; the worker takes the next one *)
Return(w) ==
    /\ Idle
    /\ procs[w].pc = "done"
    /\ procs' = [procs EXCEPT ![w] = [NoOperation EXCEPT !.calls = procs[w].calls + 1]]
    /\ UNCHANGED <<sessions_file, now, token_expiry, next_sid, refreshed, mailbox,
                   last, active_flows>>

(* get_credentials lines 242-257: the session is read and tested, the    *)
(* credential is built and its expiry is looked at                       *)
Begin(w) ==
    /\ Idle
    /\ procs[w].pc = "idle"
    /\ procs[w].calls < MaxCalls
    /\ \E sid \in SessionIds :
       \E p \in {[procs[w] EXCEPT !.op = "get_credentials", !.sid = sid,
                                  !.pre = sessions_file]} :
         /\ HasSession(sessions_file, sid)
               => get_session(sessions_file, sid).access_token \in DOMAIN token_expiry
         /\ procs' = [procs EXCEPT ![w] =
               IF SessionRejected(sessions_file, sid, now)
               THEN Finish(p, "rejected")
               ELSE LET session == get_session(sessions_file, sid) IN
                    IF ~CredentialsExpired(token_expiry, session.access_token, now)
                    THEN [p EXCEPT !.pc = "done",
                            !.cred = Credentials(session.access_token,
                                                 session.refresh_token)]
                    ELSE [p EXCEPT !.pc = "expired", !.given = session]]
    /\ UNCHANGED <<sessions_file, now, token_expiry, next_sid, refreshed, mailbox,
                   last, active_flows>>

(* get_credentials lines 258-262: credentials.refresh; on success the    *)
(* session object takes the new access token                             *)
Refresh(w) ==
    /\ Idle
    /\ procs[w].pc = "expired"
    /\ \E rf \in RefreshAnswers, ttl \in 1..MaxTTL :
       \E env \in {[rf |-> rf, ttl |-> ttl, rot |-> "none", sv |-> "ok"]} :
         IF RefreshSucceeds(procs[w].given, env)
         THEN /\ TokensLeft(token_expiry)
              /\ \E token \in {NewToken(token_expiry)} :
                   /\ token_expiry' = [k \in DOMAIN token_expiry \cup {token} |->
                                         IF k = token THEN now + ttl ELSE token_expiry[k]]
                   /\ procs' = [procs EXCEPT ![w] =
                         [procs[w] EXCEPT !.pc = "refreshed", !.token = token,
                            !.attempted = TRUE,
                            !.given = RefreshedSession(procs[w].given, token,
                               RefreshedRefreshToken(procs[w].given, token_expiry, env))]]
         ELSE /\ ttl = 1
              /\ token_expiry' = token_expiry
              /\ procs' = [procs EXCEPT ![w] =
                    [Finish(procs[w], "RefreshError") EXCEPT !.attempted = TRUE]]
    /\ UNCHANGED <<sessions_file, now, next_sid, refreshed, mailbox, last, active_flows>>

(* get_credentials line 263: update_session(session) up to its save *)
WriteBack(w) ==
    /\ Idle
    /\ procs[w].pc = "refreshed"
    /\ \E d \in {load_sessions(sessions_file)} :
         procs' = [procs EXCEPT ![w] =
            IF procs[w].sid \notin DOMAIN d
            THEN Finish(procs[w], "ValueError")
            ELSE [procs[w] EXCEPT !.pc = "loaded",
                    !.sessions = Put(d, procs[w].sid, to_dict(procs[w].given))]]
    /\ UNCHANGED <<sessions_file, now, token_expiry, next_sid, refreshed, mailbox,
                   last, active_flows>>

NextSteps ==
    \/ Deliver
    \/ Tick
    \/ google_callback
    \/ \E w \in Workers : Enter(w)
    \/ \E w \in Workers : Open(w)
    \/ \E w \in Workers : Dump(w)
    \/ \E w \in Workers : Stop(w)
    \/ \E w \in Workers : Return(w)
    \/ \E w \in Workers : Begin(w)
    \/ \E w \in Workers : Refresh(w)
    \/ \E w \in Workers : WriteBack(w)

SpecSteps == Init /\ [][NextSteps]_vars

Next ==
    \/ Deliver
    \/ Tick
    \/ google_auth
    \/ google_callback
    \/ call_get_credentials
    \/ get_user_info
    \/ get_session_info

Spec == Init /\ [][Next]_vars

(* the mailbox endpoints alone *)
NextMail ==
    \/ Deliver
    \/ Tick
    \/ google_callback
    \/ ListEmails
    \/ GenerateReplies
    \/ SendReply
    \/ DeleteEmail
    \/ SearchEmails

SpecMail == Init /\ [][NextMail]_vars

(* the conversational endpoint alone *)
NextChat ==
    \/ Deliver
    \/ Tick
    \/ google_callback
    \/ ProcessChatMessage

SpecChat == Init /\ [][NextChat]_vars

(* the two endpoints that read a batch of messages *)
NextBatch ==
    \/ Deliver
    \/ Tick
    \/ google_callback
    \/ ListEmails
    \/ ProcessChatMessage

SpecBatch == Init /\ [][NextBatch]_vars

(* ---------------------------------------------------------------------- *)
(* Properties                                                              *)
(* ---------------------------------------------------------------------- *)
Resolved == last.op = "get_credentials"
Sessions(f) == [k \in DOMAIN load_sessions(f) |-> get_session(f, k)]
Stored == Sessions(sessions_file)
Before == Sessions(last.pre)
WasStored == last.sid \in DOMAIN Before
Old == Before[last.sid]

(* C1: get_credentials returns None, and makes no refresh call, when the  *)
(* session is absent from the store and when the stored session's         *)
(* expires_at is before now and it has no refresh_token.                  *)
C1_AbsentOrTerminallyExpiredIsNone ==
    Resolved /\ (~WasStored \/ (Old.expires_at < last.at /\ Old.refresh_token = NoToken))
        => last.cred = None /\ last.refresh_calls = 0

C1_Witness ==
    /\ Resolved /\ WasStored
    /\ Old.expires_at < last.at /\ Old.refresh_token = NoToken
    /\ last.cred = None

C3_ExpiresAtIsExpiryOfStoredToken ==
    \A sid \in DOMAIN Stored :
        Stored[sid].expires_at = token_expiry[Stored[sid].access_token]

(* C4: a refresh that is written back never erases the stored refresh     *)
(* token: the stored one is replaced when the refreshed credential        *)
(* carries one and kept unchanged when it carries none, so a session that *)
(* had a refresh token still has one.                                     *)
C4_RefreshKeepsRefreshToken ==
    last.op \in {"get_credentials", "get_user_info"} /\ last.wrote
        => /\ last.sid \in DOMAIN Stored
           /\ Stored[last.sid].refresh_token =
                 (IF last.cred.refresh_token # NoToken
                  THEN last.cred.refresh_token ELSE Old.refresh_token)
           /\ Old.refresh_token # NoToken => Stored[last.sid].refresh_token # NoToken

C4_Witness ==
    /\ Resolved /\ last.wrote
    /\ last.cred.refresh_token = NoToken
    /\ Stored[last.sid].refresh_token = Old.refresh_token
    /\ Old.refresh_token # NoToken

(* C5: when the refresh attempt inside get_credentials fails (the         *)
(* provider refuses, or the write-back fails) the call returns None       *)
(* without raising and the session file is exactly as before the call.    *)
C5_FailedRefreshLeavesStore ==
    Resolved /\ last.refresh_calls > 0 /\ ~last.wrote
        => last.cred = None /\ ~last.raised /\ sessions_file = last.pre

(* C6: after a refresh that was written back, the next get_credentials    *)
(* for the session made while the stored token is still valid makes no    *)
(* refresh call and returns a credential carrying the stored token.       *)
C6_ResolveAfterRefreshReturnsStoredToken ==
    Resolved /\ ~last.wrote /\ last.sid \in refreshed /\ WasStored
             /\ ~CredentialsExpired(token_expiry, Old.access_token, last.at)
        => /\ last.refresh_calls = 0
           /\ last.cred = Credentials(Old.access_token, Old.refresh_token)


Chat == last.op = "process_chat_message"

(* C7: for POST /chatbot/message the session is resolved first: when      *)
(* get_credentials returns None the request ends with 401 and neither a   *)
(* text-generation call nor a mailbox call is made.                       *)
C7_ChatRejectsBeforeIntentResolution ==
    Chat /\ last.cred.none
        => last.status = 401 /\ last.textgen_calls = 0 /\ last.mailbox_calls = 0

C7_Witness ==
    /\ Chat /\ last.cred.none /\ WasStored
    /\ last.status = 401 /\ last.textgen_calls = 0

(* C8: every mailbox endpoint answers 401, and issues no mailbox call,    *)
(* when the supplied session id does not resolve to a credential.         *)
C8_MailboxEndpointsAnswer401 ==
    last.op \in MailboxEndpoints /\ last.denied > 0
        => last.status = 401 /\ last.mailbox_calls = 0

(* C9: whenever a credential resolution made while serving a request      *)
(* yields None, the second one made by a chat handler included, the       *)
(* caller receives 401.                                                   *)
C9_AuthorizationFailureIsNeverDowngraded ==
    (Chat \/ last.op \in MailboxEndpoints) /\ last.denied > 0
        => last.status = 401

(* C10: with a valid credential POST /chatbot/message always ends in an   *)
(* HTTP-success envelope; a failure inside a handler is returned with an  *)
(* error marker under the handler's action.                               *)
C10_ChatAlwaysAnswersSuccess ==
    Chat /\ ~last.cred.none
        => /\ last.status = 200
           /\ last.error => last.action \in Handled

(* C20: GET /auth/session/{id} answers 404 for an absent id and leaves   *)
(* the store as it was; for a stored session whose expires_at is before  *)
(* now it answers 401 and the record is gone from the store afterwards   *)
(* (the deletion's write having gone through); otherwise it answers 200  *)
(* with the session's id, email and expiry and leaves the store as it    *)
(* was.                                                                  *)
C20_SessionInfoStatus ==
    last.op = "get_session_info" =>
       /\ ~WasStored => last.status = 404 /\ sessions_file = last.pre
       /\ WasStored /\ Old.expires_at < last.at /\ ~last.raised
             => /\ last.status = 401
                /\ last.sid \notin DOMAIN Stored
                /\ \A k \in DOMAIN Before \ {last.sid} :
                      k \in DOMAIN Stored /\ Stored[k] = Before[k]
       /\ WasStored /\ Old.expires_at >= last.at
             => /\ last.status = 200
                /\ last.detail.session_id = last.sid
                /\ last.detail.user_email = Old.user_email
                /\ last.detail.expires_at = isoformat(Old.expires_at)
                /\ sessions_file = last.pre

C20_Witness ==
    /\ last.op = "get_session_info" /\ WasStored /\ Old.expires_at < last.at
    /\ last.status = 401 /\ last.sid \notin DOMAIN Stored

(* a chat request that passed the session check of lines 44-46 *)
ChatRun == Chat /\ ~last.cred.none

(* the action and parameters tier 1 handed to the endpoint (lines 51-57) *)
TierOneAction ==
    IF last.detail.tier1.kind = "object" /\ last.detail.tier1.action # Missing
    THEN last.detail.tier1.action ELSE "unknown"
TierOneParameters ==
    IF last.detail.tier1.kind = "object" /\ last.detail.tier1.has_parameters
    THEN last.detail.tier1.parameters ELSE Mapping(EmptyDict)

(* the closed set of actions of a chat response *)
Intents == {"read", "reply", "delete", "greeting", "help", "unknown"}

(* C11: for every message text and every tier-1 outcome the chat         *)
(* pipeline resolves to exactly one of read, reply, delete, greeting,    *)
(* help, unknown and never throws.                                       *)
C11_IntentResolutionIsTotal ==
    ChatRun => ~last.detail.raised /\ last.status # 500 /\ last.action \in Intents

(* C12: when tier 1 returns read, reply or delete, the handler           *)
(* dispatched is the one for that action and it receives exactly the     *)
(* parameters tier 1 returned, whatever keywords or numbers the text     *)
(* contains: the keyword fallback does not run.                          *)
C12_FallbackOnlyAfterTierOneMiss ==
    ChatRun /\ TierOneAction \in Handled
        => /\ ~last.detail.raised
           /\ last.detail.ran
           /\ last.detail.resolved = TierOneAction
           /\ last.action = TierOneAction
           /\ last.detail.parameters = TierOneParameters

C12_Witness ==
    /\ ChatRun /\ TierOneAction = "read"
    /\ last.detail.text.delete_verb /\ last.detail.text.numbers = <<2>>
    /\ last.action = "read"
    /\ last.detail.parameters = Mapping([k \in {"max_results"} |-> 1])

(* the rule order of the fallback as the specification lists it: one     *)
(* email-noun set for the three verb rules, each rule tried in turn      *)
ListedRule(text) ==
    IF text.read_verb /\ text.noun # "none" THEN "read"
    ELSE IF text.reply_verb /\ text.noun # "none" THEN "reply"
    ELSE IF text.delete_verb /\ text.noun # "none" THEN "delete"
    ELSE IF text.greet THEN "greeting"
    ELSE IF text.help THEN "help"
    ELSE "unknown"

(* C13: when tier 1 misses, the resolved action is that of the first     *)
(* rule whose condition holds on the text, in the order read, reply,     *)
(* delete, greeting, help, unknown, the email-noun set being {email,     *)
(* mail, message, inbox} for all three verb rules.                       *)
C13_FallbackRuleOrder ==
    ChatRun /\ TierOneAction = "unknown" /\ ~last.detail.raised
        => last.action = ListedRule(last.detail.text)

(* C14: when the fallback resolves read (delete) and the text contains a *)
(* number, parameters.max_results (email_number) is the first number of  *)
(* the text and nothing else of the parameters changes; without a number, *)
(* and for reply, the fallback sets no parameter.                        *)
C14_FallbackTakesFirstNumber ==
    ChatRun /\ TierOneAction = "unknown" /\ ~last.detail.raised
        => LET text  == last.detail.text
               given == TierOneParameters
               p     == last.detail.parameters
               key   == IF last.detail.resolved = "read" THEN "max_results"
                        ELSE "email_number"
           IN IF last.detail.resolved \in {"read", "delete"} /\ text.numbers # <<>>
              THEN /\ p.mapping
                   /\ DOMAIN p.items = DOMAIN given.items \cup {key}
                   /\ p.items[key] = text.numbers[1]
                   /\ \A k \in DOMAIN given.items \ {key} : p.items[k] = given.items[k]
              ELSE p = given

C14_Witness ==
    /\ ChatRun /\ TierOneAction = "unknown" /\ ~last.detail.raised
    /\ last.detail.text.numbers = <<2, 3>>
    /\ last.detail.resolved = "read"
    /\ last.detail.parameters = Mapping([k \in {"max_results"} |-> 2])

(* a chat request whose handler for the action ran with a mailbox        *)
(* service and a dict of parameters                                      *)
Ran(action) ==
    /\ ChatRun /\ last.detail.ran /\ last.detail.resolved = action
    /\ last.denied = 0 /\ last.detail.parameters.mapping

(* the value of a parameter of the handler, as parameters.get(k) *)
Param(k, default) == Get(last.detail.parameters, k, default)

(* the messages of seq whose fetch and processing went through *)
Processed(seq, me) == SelectSeq(seq, LAMBDA m : m \notin me.bad)

(* C15: in a read batch (chat read handler and GET /email/list) the      *)
(* returned entries are exactly the listed messages whose fetch and      *)
(* processing succeeded, in the order of the listing; a failure on one   *)
(* message skips only that message, and the batch neither aborts nor     *)
(* raises.                                                               *)
C15_ReadBatchSkipsOnlyFailures ==
    /\ Ran("read") /\ last.detail.me.list = "ok"
          => /\ last.status = 200 /\ last.action = "read" /\ ~last.error
             /\ last.detail.response.items
                  = Processed(last.detail.response.listing, last.detail.me)
    /\ last.op = "list_emails" /\ ~last.cred.none /\ last.detail.kind = "list"
          => /\ last.status = 200
             /\ last.detail.items = Processed(last.detail.listing, last.detail.me)

C15_Witness ==
    /\ Ran("read") /\ last.detail.me.bad = {2}
    /\ last.detail.response.listing = <<3, 2, 1>>
    /\ last.detail.response.items = <<3, 1>>

(* C16: the chat reply handler resolves its target set by strict         *)
(* priority: the explicit email_ids when any are given, even if an index *)
(* is given too; otherwise the Nth most recent message when an index N   *)
(* was given; otherwise the 5 most recent messages.                      *)
C16_ReplyTargetsByPriority ==
    Ran("reply") /\ last.detail.me.list = "ok"
        => LET email_ids    == Param("email_ids", <<>>)
               email_number == Param("email_number", 0)
               mbox         == last.detail.mailbox
               targets      == last.detail.response.targets
           IN IF email_ids # <<>> THEN targets = email_ids
              ELSE IF email_number # 0
              THEN email_number <= Len(mbox) => targets = <<mbox[email_number]>>
              ELSE targets = Take(mbox, DefaultMaxResults)

(* C17: when target resolution in the chat reply handler yields no       *)
(* message (no ids given, the listing empty) the handler answers with    *)
(* action "reply", no data and no error, and makes no per-message fetch  *)
(* and no text-generation call.                                          *)
C17_NoReplyTargetsIsNoOp ==
    ( /\ Ran("reply") /\ last.detail.me.list = "ok"
      /\ Param("email_ids", <<>>) = <<>> /\ last.detail.response.listing = <<>> )
        => /\ last.status = 200 /\ last.action = "reply" /\ ~last.error
           /\ last.detail.response.data = "none"
           /\ last.detail.response.calls.get = 0
           /\ last.detail.response.textgen_calls = 0
           /\ last.textgen_calls = IntentCalls(last.cred)
           /\ mailbox = last.detail.mailbox

C17_Witness ==
    /\ Ran("reply") /\ last.detail.me.list = "ok"
    /\ Param("email_ids", <<>>) = <<>> /\ last.detail.mailbox = <<>>
    /\ last.action = "reply" /\ last.detail.response.data = "none"
    /\ last.detail.response.calls.list > 0

(* the handler was given nothing that names a message *)
NoCriterion ==
    /\ Param("email_id", 0) = 0 /\ Param("email_number", 0) = 0
    /\ Param("sender", "") = "" /\ Param("subject_keyword", "") = ""

(* C18: a chat delete with no resolvable target criterion answers with   *)
(* the disambiguation prompt, action "delete" and no error, and issues   *)
(* no mailbox list, get or delete call.                                  *)
C18_DeleteWithoutTargetAsks ==
    Ran("delete") /\ NoCriterion
        => /\ last.status = 200 /\ last.action = "delete" /\ ~last.error
           /\ last.detail.response.data = "none"
           /\ last.detail.response.calls = NoCalls /\ last.mailbox_calls = 0
           /\ mailbox = last.detail.mailbox

C18_Witness ==
    /\ Ran("delete") /\ NoCriterion /\ last.detail.text.delete_verb
    /\ last.action = "delete" /\ last.mailbox_calls = 0

(* the most recent message of the mailbox that the query matches *)
MostRecentMatch(mbox, me, m) ==
    \E i \in 1..Len(mbox) :
       mbox[i] = m /\ m \in me.hits /\ \A j \in 1..(i - 1) : mbox[j] \notin me.hits

(* C19: one chat delete message issues at most one mailbox delete call,  *)
(* for one target chosen by priority explicit id, then index (the Nth    *)
(* entry of the listing), then sender search, then subject search (each  *)
(* search taking the single most recent match); when the index exceeds   *)
(* the listing or the search matches nothing, no delete call is issued   *)
(* and the response has action "delete" and no error.                    *)
C19_DeleteOneTargetByPriority ==
    Ran("delete") =>
       LET email_id     == Param("email_id", 0)
           email_number == Param("email_number", 0)
           sender       == Param("sender", "")
           subject      == Param("subject_keyword", "")
           r            == last.detail.response
           me           == last.detail.me
           mbox         == last.detail.mailbox
           listed       == me.list = "ok"
       IN /\ r.calls.delete <= 1
          /\ \A m \in MessageIds \cup {0} :
               InSeq(mbox, m) /\ ~InSeq(mailbox, m) => r.targets = <<m>>
          /\ r.calls.delete = 1 =>
               /\ Len(r.targets) = 1
               /\ IF email_id # 0 THEN r.targets[1] = email_id /\ r.calls.list = 0
                  ELSE IF email_number # 0
                  THEN /\ listed /\ email_number <= Len(mbox)
                       /\ r.targets[1] = mbox[email_number]
                  ELSE /\ listed /\ Len(r.listing) = 1
                       /\ r.query = (IF sender # "" THEN "from" ELSE "subject")
                       /\ MostRecentMatch(mbox, me, r.targets[1])
          /\ /\ email_id = 0 /\ listed
             /\ \/ email_number # 0 /\ email_number > Len(r.listing)
                \/ email_number = 0 /\ (sender # "" \/ subject # "") /\ r.listing = <<>>
             => /\ r.calls.delete = 0 /\ r.calls.get = 0
                /\ last.status = 200 /\ last.action = "delete" /\ ~last.error
                /\ mailbox = mbox

C19_Witness ==
    /\ Ran("delete") /\ Param("email_id", 0) = 0 /\ Param("email_number", 0) = 0
    /\ Param("sender", "") # "" /\ Param("subject_keyword", "") # ""
    /\ last.detail.response.query = "from"
    /\ last.detail.response.calls.delete = 1
    /\ last.detail.response.targets = <<last.detail.mailbox[1]>>
    /\ ~InSeq(mailbox, last.detail.mailbox[1])

(* C21: an OAuth callback whose state is not among the flows started by *)
(* GET /auth/google is rejected with HTTP 400: no token exchange is      *)
(* attempted and no session is created.                                  *)
C21_UnknownStateIsRejected ==
    last.op = "google_callback" /\ ~last.detail.known
        => /\ last.status = 400
           /\ ~last.detail.exchanged /\ ~last.detail.created
           /\ sessions_file = last.pre

(* the records of the other sessions are as they were before the call *)
OthersUnchanged ==
    /\ DOMAIN Stored \ {last.sid} = DOMAIN Before \ {last.sid}
    /\ \A k \in DOMAIN Before \ {last.sid} : Stored[k] = Before[k]

(* C22: update_session on an id that is not in the store fails with      *)
(* ValueError and leaves the store unchanged; on a present id it         *)
(* replaces the whole stored record with the given one, so that          *)
(* get_session then returns the given field values, and no other         *)
(* session's record changes.                                             *)
C22_UpdateReplacesOrFails ==
    last.op = "update_session" =>
       /\ ~WasStored => last.detail.error = "ValueError" /\ sessions_file = last.pre
       /\ WasStored /\ ~last.raised
             => /\ HasSession(sessions_file, last.sid)
                /\ get_session(sessions_file, last.sid) = last.detail.given
                /\ OthersUnchanged

C22_Witness ==
    /\ last.op = "update_session" /\ WasStored /\ ~last.raised
    /\ Old # last.detail.given /\ Stored[last.sid] = last.detail.given
    /\ DOMAIN Before # {last.sid}

(* C23: create_session on an id already in the store fails with a        *)
(* duplicate-key error and leaves the existing record unchanged; only    *)
(* for an absent id is the record persisted.                             *)
C23_CreateRejectsDuplicate ==
    last.op = "create_session" /\ WasStored
        => last.raised /\ HasSession(sessions_file, last.sid) /\ Stored[last.sid] = Old

(* C24: delete_session is idempotent: deleting an absent id raises no    *)
(* error and leaves the store unchanged; deleting a present id removes   *)
(* exactly that record and leaves every other record unchanged; deleting *)
(* again changes nothing.                                                *)
C24_DeleteIsIdempotent ==
    last.op = "delete_session" =>
       /\ ~WasStored => ~last.raised /\ sessions_file = last.pre
       /\ WasStored /\ ~last.raised
             => /\ ~HasSession(sessions_file, last.sid)
                /\ OthersUnchanged
       /\ ~last.raised
             => delete_session(sessions_file, last.sid, "ok")
                   = Result(sessions_file, "none")

C24_Witness ==
    /\ last.op = "delete_session" /\ WasStored /\ ~last.raised
    /\ ~HasSession(sessions_file, last.sid)
    /\ DOMAIN Stored # {}

(* C25: get_session after create_session(s) returns a record equal to s  *)
(* in session_id, user_email, access_token, refresh_token (an absent one *)
(* included), expires_at and created_at, created_at being populated when *)
(* it was unset; from_dict(to_dict(s)) reproduces s.                     *)
C25_CreateThenGetRoundTrip ==
    last.op = "create_session" /\ ~last.raised =>
       LET s == last.detail.given IN
       /\ HasSession(sessions_file, s.session_id)
       /\ get_session(sessions_file, s.session_id) = s
       /\ from_dict(to_dict(s)) = s
       /\ s.created_at # Unset
       /\ last.detail.created = Unset => s.created_at = last.at

C25_Witness ==
    /\ last.op = "create_session" /\ ~last.raised
    /\ last.detail.created = Unset /\ last.at > 0
    /\ last.detail.given.refresh_token # NoToken
    /\ get_session(sessions_file, last.sid) = last.detail.given

(* worker w has completed a create_session that did not raise *)
Created(w) ==
    /\ procs[w].pc = "done"
    /\ procs[w].op = "create_session"
    /\ ~procs[w].raised

(* C26: under any interleaving of the store calls of concurrent          *)
(* requests no completed write is lost: when the requests have created   *)
(* sessions under distinct ids and all have returned, every one of the   *)
(* records is in the store.                                              *)
C26_NoCompletedWriteIsLost ==
    (/\ \A w \in Workers : Created(w)
     /\ \A w, v \in Workers : w # v => procs[w].sid # procs[v].sid)
        => \A w \in Workers :
              /\ HasSession(sessions_file, procs[w].sid)
              /\ get_session(sessions_file, procs[w].sid) = procs[w].given

(* C27: when the process stops inside create_session, update_session or  *)
(* delete_session (no other request and no callback having run), the     *)
(* store read afterwards is the complete state before the operation or   *)
(* the complete state after it, never a truncated file.                  *)
C27_StopLeavesBeforeOrAfter ==
    \A w \in Workers :
       (/\ procs[w].pc = "stopped"
        /\ procs[w].op \in StoreOps
        /\ \A v \in Workers \ {w} : procs[v] = NoOperation
        /\ next_sid = 1)
          => /\ sessions_file.valid
             /\ sessions_file \in {procs[w].pre, JsonFile(procs[w].sessions)}

(* worker w saw the token of its session expired and called refresh *)
Attempted(w) ==
    /\ procs[w].pc = "done"
    /\ procs[w].op = "get_credentials"
    /\ procs[w].attempted

(* C28: when two requests for the same session both attempted a refresh  *)
(* and the store holds the token one of them obtained and wrote back,    *)
(* still valid, the other request is not answered None.                  *)
C28_ConcurrentRefreshTolerated ==
    \A w, v \in Workers :
       (/\ w # v
        /\ Attempted(w) /\ Attempted(v)
        /\ procs[w].sid = procs[v].sid
        /\ procs[v].wrote
        /\ HasSession(sessions_file, procs[v].sid)
        /\ get_session(sessions_file, procs[v].sid).access_token = procs[v].token
        /\ ~CredentialsExpired(token_expiry, procs[v].token, now))
          => ~procs[w].cred.none

(* C29: get_credentials changes the store only when it performed a       *)
(* successful refresh, and then only access_token, refresh_token and     *)
(* expires_at of the resolved session: its other fields and every other  *)
(* session are unchanged; a resolution that returns None or makes no     *)
(* refresh leaves the store unchanged and no record is created or        *)
(* deleted.                                                              *)
C29_FrameOfResolution ==
    Resolved =>
       /\ DOMAIN Stored = DOMAIN Before
       /\ \A k \in DOMAIN Before \ {last.sid} : Stored[k] = Before[k]
       /\ last.cred = None \/ last.refresh_calls = 0 => sessions_file = last.pre
       /\ WasStored /\ HasSession(sessions_file, last.sid)
             => /\ Stored[last.sid].session_id = Old.session_id
                /\ Stored[last.sid].user_email = Old.user_email
                /\ Stored[last.sid].created_at = Old.created_at

(* C30: in the chat delete handler, once a target is resolved the header *)
(* fetch is made and then the delete call, whatever the fetch's outcome; *)
(* when the fetch fails and the delete goes through, the answer is the   *)
(* success answer with Subject and From "Unknown" and                    *)
(* data.deleted_email_id set to the target, and the message is gone.     *)
C30_DeleteIssuedAfterHeaderFetch ==
    Ran("delete") /\ last.detail.response.targets # <<>> =>
       LET r      == last.detail.response
           me     == last.detail.me
           mbox   == last.detail.mailbox
           target == r.targets[1]
       IN /\ r.order = <<"get", "delete">>
          /\ r.calls.get = 1 /\ r.calls.delete = 1
          /\ ~Fetchable(mbox, me, target) /\ InSeq(mbox, target) /\ me.call = "ok"
                => /\ last.status = 200 /\ last.action = "delete" /\ ~last.error
                   /\ r.headers = "Unknown"
                   /\ r.data = "deleted_email_id" /\ r.items = <<target>>
                   /\ mailbox = Without(mbox, target)

C30_Witness ==
    /\ Ran("delete") /\ last.detail.response.targets # <<>>
    /\ last.detail.response.targets[1] \in last.detail.me.bad
    /\ InSeq(last.detail.mailbox, last.detail.response.targets[1])
    /\ last.detail.response.headers = "Unknown"
    /\ last.detail.response.data = "deleted_email_id"
    /\ ~InSeq(mailbox, last.detail.response.targets[1])

====
